---- MODULE Spec2Model ----
(***************************************************************************)
(* Task management service: domain entity and factory (domain/task.py),    *)
(* in-memory repository (memory_task_repository.py), application service   *)
(* (task_service.py) and HTTP adapter (fastapi_app.py).                    *)
(*                                                                         *)
(* Python strings are sequences of one-character strings, so that          *)
(* str.strip() and str.lower() are computed rather than assumed.           *)
(* An Optional[x] is a sequence of length 0 (None) or 1 (the value).       *)
(***************************************************************************)
EXTENDS Integers, Sequences, FiniteSets, TLC

VARIABLES tasks, used, last, pc, sid, resp, race

vars == <<tasks, used, last, pc, sid, resp, race>>

scenVars == <<pc, sid, resp>>

clientVars == <<scenVars, race>>

----------------------------------------------------------------------------
(* Bounds of the model *)

MaxTitleLen == 2

MaxIds == 2

Ids == 1..MaxIds

Chars == {" ", "a"}

Titles == UNION {[1..n -> Chars] : n \in 0..MaxTitleLen}

S_pending == <<"p", "e", "n", "d", "i", "n", "g">>

S_done == <<"d", "o", "n", "e">>

S_DONE == <<"D", "O", "N", "E">>

S_empty == <<>>

S_x == <<"x">>

StatusInputs == {S_pending, S_done, S_DONE, S_empty, S_x}

None == <<>>

Some(v) == <<v>>

Opt(S) == {None} \cup {Some(v) : v \in S}

----------------------------------------------------------------------------
(* Python str methods *)

IsSpace(c) == c = " "

RECURSIVE lstrip(_)
lstrip(s) ==
    IF s = <<>> THEN <<>>
    ELSE IF IsSpace(Head(s)) THEN lstrip(Tail(s)) ELSE s

RECURSIVE rstrip(_)
rstrip(s) ==
    IF s = <<>> THEN <<>>
    ELSE IF IsSpace(s[Len(s)]) THEN rstrip(SubSeq(s, 1, Len(s) - 1)) ELSE s

strip(s) == rstrip(lstrip(s))

LowerChar(c) ==
    CASE c = "P" -> "p"
      [] c = "E" -> "e"
      [] c = "N" -> "n"
      [] c = "D" -> "d"
      [] c = "I" -> "i"
      [] c = "G" -> "g"
      [] c = "O" -> "o"
      [] OTHER -> c

lower(s) == [i \in 1..Len(s) |-> LowerChar(s[i])]

----------------------------------------------------------------------------
(* domain/task.py *)

TaskStatus == {"PENDING", "DONE"}

StatusValue(m) == IF m = "PENDING" THEN S_pending ELSE S_done

\* TaskStatus(value): the member with that value, or ValueError
TaskStatusOf(value) ==
    IF \E m \in TaskStatus : StatusValue(m) = value
    THEN [exc |-> "", val |-> Some(CHOOSE m \in TaskStatus : StatusValue(m) = value)]
    ELSE [exc |-> "ValueError", val |-> None]

\* Task without the title check of __post_init__
Task_NoTitleCheck(id, title, status) ==
    IF status \notin {"PENDING", "DONE"} THEN [exc |-> "ValueError", val |-> None]
    ELSE [exc |-> "", val |-> Some([id |-> id, title |-> title, status |-> status])]

\* Task(id, title, status) with __post_init__
Task(id, title, status) ==
    IF title = <<>> \/ strip(title) = <<>> THEN [exc |-> "ValueError", val |-> None]
    ELSE IF status \notin TaskStatus THEN [exc |-> "ValueError", val |-> None]
    ELSE [exc |-> "", val |-> Some([id |-> id, title |-> title, status |-> status])]

to_dict(t) == [id |-> t.id, title |-> t.title, status |-> StatusValue(t.status)]

\* TaskFactory.create that passes title instead of title.strip()
TaskFactory_create_NoStrip(title, status, task_id, uuid) ==
    LET task_status == TaskStatusOf(lower(status))
    IN  IF task_status.exc # "" THEN [exc |-> "ValueError", val |-> None]
        ELSE LET id == IF task_id = None THEN uuid ELSE task_id[1]
             IN  Task(id, title, task_status.val[1])

\* TaskFactory.create(title, status, task_id); uuid is what uuid4() yields
TaskFactory_create(title, status, task_id, uuid) ==
    LET task_status == TaskStatusOf(lower(status))
    IN  IF task_status.exc # "" THEN [exc |-> "ValueError", val |-> None]
        ELSE LET id == IF task_id = None THEN uuid ELSE task_id[1]
             IN  Task(id, strip(title), task_status.val[1])

----------------------------------------------------------------------------
(* adapters/persistence/memory_task_repository.py                          *)
(* _tasks is a dict: a sequence of tasks with unique ids, in insertion      *)
(* order.                                                                  *)

Keys(ts) == {ts[i].id : i \in 1..Len(ts)}

IndexOf(ts, id) == CHOOSE i \in 1..Len(ts) : ts[i].id = id

\* self._tasks[task.id] = task
DictSet(ts, task) ==
    IF task.id \in Keys(ts)
    THEN [ts EXCEPT ![IndexOf(ts, task.id)] = task]
    ELSE Append(ts, task)

\* del self._tasks[task_id]
DictDel(ts, id) ==
    LET k == IndexOf(ts, id)
    IN  SubSeq(ts, 1, k - 1) \o SubSeq(ts, k + 1, Len(ts))

\* save that pops the old entry first: an overwritten id moves to the end
save_MoveToEnd(ts, task) ==
    [store |-> Append(IF task.id \in Keys(ts) THEN DictDel(ts, task.id) ELSE ts, task),
     ret |-> Some(task)]

\* save that keeps an entry already stored (dict.setdefault)
save_NoOverwrite(ts, task) ==
    [store |-> IF task.id \in Keys(ts) THEN ts ELSE Append(ts, task), ret |-> Some(task)]

save(ts, task) == [store |-> DictSet(ts, task), ret |-> Some(task)]

find_all(ts) == ts

find_by_id(ts, id) == IF id \in Keys(ts) THEN Some(ts[IndexOf(ts, id)]) ELSE None

\* update without the membership test
update_Upsert(ts, task) == [store |-> DictSet(ts, task), ret |-> Some(task)]

update(ts, task) ==
    IF task.id \notin Keys(ts) THEN [store |-> ts, ret |-> None]
    ELSE [store |-> DictSet(ts, task), ret |-> Some(task)]

\* delete that reports the removal without the del statement
delete_NoRemove(ts, id) ==
    IF id \in Keys(ts) THEN [store |-> ts, ok |-> TRUE]
    ELSE [store |-> ts, ok |-> FALSE]

\* delete as self._tasks.pop(task_id, None); return True
delete_Pop(ts, id) ==
    IF id \in Keys(ts) THEN [store |-> DictDel(ts, id), ok |-> TRUE]
    ELSE [store |-> ts, ok |-> TRUE]

delete(ts, id) ==
    IF id \in Keys(ts) THEN [store |-> DictDel(ts, id), ok |-> TRUE]
    ELSE [store |-> ts, ok |-> FALSE]

----------------------------------------------------------------------------
(* application/services/task_service.py                                    *)
(* Each use case yields the repository contents afterwards (store), the    *)
(* exception raised ("" when none) and the value returned.                 *)

create_task(ts, title, status, uuid) ==
    LET task == TaskFactory_create(title, status, None, uuid)
    IN  IF task.exc # ""
        THEN [store |-> ts, exc |-> task.exc, ret |-> None, ok |-> FALSE]
        ELSE LET r == save(ts, task.val[1])
             IN  [store |-> r.store, exc |-> "", ret |-> r.ret, ok |-> TRUE]

get_all_tasks(ts) == find_all(ts)

get_task_by_id(ts, task_id) == find_by_id(ts, task_id)

\* update_task that stores the merged fields without going through the factory
update_task_NoValidate(ts, task_id, title, status) ==
    LET existing_task == find_by_id(ts, task_id)
    IN  IF existing_task = None
        THEN [store |-> ts, exc |-> "", ret |-> None, ok |-> FALSE]
        ELSE LET new_title == IF title # None THEN title[1] ELSE existing_task[1].title
                 parsed == IF status # None THEN TaskStatusOf(lower(status[1]))
                           ELSE [exc |-> "", val |-> Some(existing_task[1].status)]
             IN  IF parsed.exc # ""
                 THEN [store |-> ts, exc |-> parsed.exc, ret |-> None, ok |-> FALSE]
                 ELSE LET r == update(ts, [id |-> task_id, title |-> new_title,
                                           status |-> parsed.val[1]])
                      IN  [store |-> r.store, exc |-> "", ret |-> r.ret, ok |-> r.ret # None]

\* update_task that takes a blank supplied title as no title supplied
update_task_BlankTitleKept(ts, task_id, title, status) ==
    LET existing_task == find_by_id(ts, task_id)
    IN  IF existing_task = None
        THEN [store |-> ts, exc |-> "", ret |-> None, ok |-> FALSE]
        ELSE LET new_title == IF title # None /\ strip(title[1]) # <<>> THEN title[1]
                              ELSE existing_task[1].title
                 new_status == IF status # None THEN status[1]
                               ELSE StatusValue(existing_task[1].status)
                 updated_task == TaskFactory_create(new_title, new_status, Some(task_id), task_id)
             IN  IF updated_task.exc # ""
                 THEN [store |-> ts, exc |-> updated_task.exc, ret |-> None, ok |-> FALSE]
                 ELSE LET r == update(ts, updated_task.val[1])
                      IN  [store |-> r.store, exc |-> "", ret |-> r.ret, ok |-> r.ret # None]

\* update_task that falls back to "pending" instead of the stored status
update_task_DefaultStatus(ts, task_id, title, status) ==
    LET existing_task == find_by_id(ts, task_id)
    IN  IF existing_task = None
        THEN [store |-> ts, exc |-> "", ret |-> None, ok |-> FALSE]
        ELSE LET new_title == IF title # None THEN title[1] ELSE existing_task[1].title
                 new_status == IF status # None THEN status[1] ELSE S_pending
                 updated_task == TaskFactory_create(new_title, new_status, Some(task_id), task_id)
             IN  IF updated_task.exc # ""
                 THEN [store |-> ts, exc |-> updated_task.exc, ret |-> None, ok |-> FALSE]
                 ELSE LET r == update(ts, updated_task.val[1])
                      IN  [store |-> r.store, exc |-> "", ret |-> r.ret, ok |-> r.ret # None]

update_task(ts, task_id, title, status) ==
    LET existing_task == find_by_id(ts, task_id)
    IN  IF existing_task = None
        THEN [store |-> ts, exc |-> "", ret |-> None, ok |-> FALSE]
        ELSE LET new_title == IF title # None THEN title[1] ELSE existing_task[1].title
                 new_status == IF status # None THEN status[1]
                               ELSE StatusValue(existing_task[1].status)
                 updated_task == TaskFactory_create(new_title, new_status, Some(task_id), task_id)
             IN  IF updated_task.exc # ""
                 THEN [store |-> ts, exc |-> updated_task.exc, ret |-> None, ok |-> FALSE]
                 ELSE LET r == update(ts, updated_task.val[1])
                      IN  [store |-> r.store, exc |-> "", ret |-> r.ret, ok |-> r.ret # None]

delete_task(ts, task_id) == delete(ts, task_id)

\* get_tasks_by_status that compares with status instead of status.lower()
get_tasks_by_status_NoLower(ts, status) ==
    SelectSeq(find_all(ts), LAMBDA task : StatusValue(task.status) = status)

get_tasks_by_status(ts, status) ==
    SelectSeq(find_all(ts), LAMBDA task : StatusValue(task.status) = lower(status))

----------------------------------------------------------------------------
(* adapters/http/fastapi_app.py *)

HTTP_200_OK == 200

HTTP_201_CREATED == 201

HTTP_204_NO_CONTENT == 204

HTTP_400_BAD_REQUEST == 400

HTTP_404_NOT_FOUND == 404

HTTP_422_UNPROCESSABLE_ENTITY == 422

HTTP_500_INTERNAL_SERVER_ERROR == 500

StatusNames == {S_pending, S_done}

\* CreateTaskRequest: both fields required, title min_length=1, then the
\* field validators. A body that fails never reaches the handler.
CreateTaskRequest(title, status) ==
    IF title = None \/ status = None THEN [exc |-> "ValidationError", title |-> None, status |-> None]
    ELSE IF Len(title[1]) < 1 \/ strip(title[1]) = <<>>
         THEN [exc |-> "ValidationError", title |-> None, status |-> None]
    ELSE IF lower(status[1]) \notin StatusNames
         THEN [exc |-> "ValidationError", title |-> None, status |-> None]
    ELSE [exc |-> "", title |-> Some(strip(title[1])), status |-> Some(lower(status[1]))]

\* UpdateTaskRequest: both fields optional
UpdateTaskRequest(title, status) ==
    IF title # None /\ (Len(title[1]) < 1 \/ strip(title[1]) = <<>>)
    THEN [exc |-> "ValidationError", title |-> None, status |-> None]
    ELSE IF status # None /\ lower(status[1]) \notin StatusNames
         THEN [exc |-> "ValidationError", title |-> None, status |-> None]
    ELSE [exc |-> "",
          title |-> IF title # None THEN Some(strip(title[1])) ELSE None,
          status |-> IF status # None /\ status[1] # <<>> THEN Some(lower(status[1])) ELSE None]

TaskResponse(d) == [id |-> d.id, title |-> d.title, status |-> d.status]

Resp(store, code, body, exc, ret, ok) ==
    [store |-> store, code |-> code, body |-> body, exc |-> exc, ret |-> ret, ok |-> ok]

\* status.<NAME> inside a handler. In get_tasks the name `status` is the query
\* parameter (a str or None), which has no such attribute.
status_attr(shadowed, value) ==
    IF shadowed THEN [exc |-> "AttributeError", val |-> 0] ELSE [exc |-> "", val |-> value]

\* raise HTTPException(status_code=status.<NAME>): the response code, or the
\* server's answer to the exception that escapes the handler
raise_HTTPException(shadowed, value) ==
    LET c == status_attr(shadowed, value)
    IN  IF c.exc # "" THEN [exc |-> c.exc, code |-> HTTP_500_INTERNAL_SERVER_ERROR]
        ELSE [exc |-> "HTTPException", code |-> c.val]

\* GET /tasks
get_tasks(ts, status) ==
    LET truthy == status # None /\ status[1] # <<>>
        \* the try block: the exception that leaves it, "" when none
        tried ==
            IF truthy /\ lower(status[1]) \notin StatusNames
            THEN raise_HTTPException(TRUE, HTTP_400_BAD_REQUEST).exc
            ELSE ""
        found == IF truthy THEN get_tasks_by_status(ts, status[1]) ELSE get_all_tasks(ts)
    IN  IF tried = ""
        THEN Resp(ts, HTTP_200_OK, [i \in 1..Len(found) |-> TaskResponse(to_dict(found[i]))],
                  "", found, TRUE)
        \* except Exception (HTTPException is one)
        ELSE LET h == raise_HTTPException(TRUE, HTTP_500_INTERNAL_SERVER_ERROR)
             IN  Resp(ts, h.code, <<>>, h.exc, <<>>, FALSE)

\* POST /tasks
http_create_task(ts, title, status, uuid) ==
    LET request == CreateTaskRequest(title, status)
    IN  IF request.exc # ""
        THEN Resp(ts, HTTP_422_UNPROCESSABLE_ENTITY, <<>>, request.exc, None, FALSE)
        ELSE LET r == create_task(ts, request.title[1], request.status[1], uuid)
             IN  IF r.exc = "ValueError"
                 THEN Resp(r.store, raise_HTTPException(FALSE, HTTP_400_BAD_REQUEST).code,
                           <<>>, r.exc, None, FALSE)
                 ELSE IF r.exc # ""
                 THEN Resp(r.store, raise_HTTPException(FALSE, HTTP_500_INTERNAL_SERVER_ERROR).code,
                           <<>>, r.exc, None, FALSE)
                 ELSE Resp(r.store, HTTP_201_CREATED, <<TaskResponse(to_dict(r.ret[1]))>>,
                           "", r.ret, TRUE)

\* GET /tasks/{task_id}
get_task(ts, task_id) ==
    LET task == get_task_by_id(ts, task_id)
    IN  IF task = None
        THEN Resp(ts, raise_HTTPException(FALSE, HTTP_404_NOT_FOUND).code, <<>>, "", None, FALSE)
        ELSE Resp(ts, HTTP_200_OK, <<TaskResponse(to_dict(task[1]))>>, "", task, TRUE)

\* PUT handler without `except HTTPException: raise`: its own 404 is caught
\* by `except Exception`
http_update_task_NoReraise(ts, task_id, title, status) ==
    LET request == UpdateTaskRequest(title, status)
    IN  IF request.exc # ""
        THEN Resp(ts, HTTP_422_UNPROCESSABLE_ENTITY, <<>>, request.exc, None, FALSE)
        ELSE LET r == update_task(ts, task_id, request.title, request.status)
             IN  IF r.exc = "ValueError"
                 THEN Resp(r.store, HTTP_400_BAD_REQUEST, <<>>, r.exc, None, FALSE)
                 ELSE IF r.exc # "" \/ r.ret = None
                 THEN Resp(r.store, HTTP_500_INTERNAL_SERVER_ERROR, <<>>, r.exc, None, FALSE)
                 ELSE Resp(r.store, HTTP_200_OK, <<TaskResponse(to_dict(r.ret[1]))>>,
                           "", r.ret, TRUE)

\* PUT /tasks/{task_id}
http_update_task(ts, task_id, title, status) ==
    LET request == UpdateTaskRequest(title, status)
    IN  IF request.exc # ""
        THEN Resp(ts, HTTP_422_UNPROCESSABLE_ENTITY, <<>>, request.exc, None, FALSE)
        ELSE LET r == update_task(ts, task_id, request.title, request.status)
             IN  IF r.exc = "ValueError"
                 THEN Resp(r.store, raise_HTTPException(FALSE, HTTP_400_BAD_REQUEST).code,
                           <<>>, r.exc, None, FALSE)
                 ELSE IF r.exc # ""
                 THEN Resp(r.store, raise_HTTPException(FALSE, HTTP_500_INTERNAL_SERVER_ERROR).code,
                           <<>>, r.exc, None, FALSE)
                 ELSE IF r.ret = None
                 THEN Resp(r.store, raise_HTTPException(FALSE, HTTP_404_NOT_FOUND).code,
                           <<>>, "", None, FALSE)
                 ELSE Resp(r.store, HTTP_200_OK, <<TaskResponse(to_dict(r.ret[1]))>>,
                           "", r.ret, TRUE)

\* DELETE /tasks/{task_id}
http_delete_task(ts, task_id) ==
    LET r == delete_task(ts, task_id)
    IN  IF ~r.ok
        THEN Resp(r.store, raise_HTTPException(FALSE, HTTP_404_NOT_FOUND).code, <<>>, "", None, FALSE)
        ELSE Resp(r.store, HTTP_204_NO_CONTENT, <<>>, "", None, TRUE)

----------------------------------------------------------------------------
(* State *)

\* tasks: MemoryTaskRepository._tasks.  used: the ids uuid4() has handed out.
\* last: what the call being observed was given, what it answered, and the
\* repository contents when it was made.
Rec(op, id, title, status, exc, ret, ok, code, body, pre) ==
    [op |-> op, id |-> id, title |-> title, status |-> status, exc |-> exc,
     ret |-> ret, ok |-> ok, code |-> code, body |-> body, pre |-> pre]

\* No call is on record: the caller has taken the previous answer.
NoCall == Rec("idle", 0, None, None, "", <<>>, FALSE, 0, <<>>, <<>>)

Idle == last = NoCall

\* update_task and delete_task of one id running concurrently. upc and dpc are
\* their positions; pending is the task update_task has built from what
\* find_by_id gave it; dat is where update_task was when delete took place.
NoRace ==
    [id |-> 0, upc |-> "idle", pending |-> [exc |-> "", val |-> None], uexc |-> "",
     uret |-> None, dpc |-> "idle", dok |-> FALSE, dat |-> ""]

Init ==
    /\ tasks = <<>>
    /\ used = {}
    /\ last = NoCall
    /\ pc = "setup"
    /\ sid = 0
    /\ resp = <<>>
    /\ race = NoRace

\* ids handed out by uuid4() are never handed out again
Fresh == Ids \ used

----------------------------------------------------------------------------
(* Calls on the service.  \E r \in {call} names the outcome of one call. *)

CreateTask ==
    /\ Idle
    /\ \E title \in Titles, status \in StatusInputs, uuid \in Fresh :
        \E r \in {create_task(tasks, title, status, uuid)} :
            /\ tasks' = r.store
            /\ used' = IF r.exc = "" THEN used \cup {uuid} ELSE used
            /\ last' = Rec("create_task", 0, Some(title), Some(status), r.exc, r.ret,
                           r.ok, 0, <<>>, tasks)
            /\ UNCHANGED clientVars

GetAllTasks ==
    /\ Idle
    /\ last' = Rec("get_all_tasks", 0, None, None, "", get_all_tasks(tasks), TRUE,
                   0, <<>>, tasks)
    /\ UNCHANGED <<tasks, used, clientVars>>

GetTaskById ==
    /\ Idle
    /\ \E task_id \in Ids :
        /\ last' = Rec("get_task_by_id", task_id, None, None, "",
                       get_task_by_id(tasks, task_id), TRUE, 0, <<>>, tasks)
        /\ UNCHANGED <<tasks, used, clientVars>>

UpdateTask ==
    /\ Idle
    /\ \E task_id \in Ids, title \in Opt(Titles), status \in Opt(StatusInputs) :
        \E r \in {update_task(tasks, task_id, title, status)} :
            /\ tasks' = r.store
            /\ last' = Rec("update_task", task_id, title, status, r.exc, r.ret, r.ok,
                           0, <<>>, tasks)
            /\ UNCHANGED <<used, clientVars>>

DeleteTask ==
    /\ Idle
    /\ \E task_id \in Ids :
        \E r \in {delete_task(tasks, task_id)} :
            /\ tasks' = r.store
            /\ last' = Rec("delete_task", task_id, None, None, "", <<>>, r.ok, 0, <<>>, tasks)
            /\ UNCHANGED <<used, clientVars>>

GetTasksByStatus ==
    /\ Idle
    /\ \E status \in StatusInputs :
        /\ last' = Rec("get_tasks_by_status", 0, None, Some(status), "",
                       get_tasks_by_status(tasks, status), TRUE, 0, <<>>, tasks)
        /\ UNCHANGED <<tasks, used, clientVars>>

\* The caller takes the answer; the next call can be observed.
Forget ==
    /\ ~Idle
    /\ last' = NoCall
    /\ UNCHANGED <<tasks, used, clientVars>>

Next ==
    \/ Forget
    \/ CreateTask
    \/ GetAllTasks
    \/ GetTaskById
    \/ UpdateTask
    \/ DeleteTask
    \/ GetTasksByStatus

Spec == Init /\ [][Next]_vars

----------------------------------------------------------------------------
(* Calls on the repository itself *)

\* The tasks a caller holds: whatever the factory makes
RepoTasks ==
    {f.val[1] : f \in {g \in {TaskFactory_create(title, status, Some(id), id) :
                                title \in Titles, status \in StatusInputs, id \in Ids} :
                       g.exc = ""}}

RepoSave ==
    /\ Idle
    /\ \E task \in RepoTasks :
        \E r \in {save(tasks, task)} :
            /\ tasks' = r.store
            /\ last' = Rec("save", task.id, Some(task.title), Some(StatusValue(task.status)),
                           "", r.ret, TRUE, 0, <<>>, tasks)
            /\ UNCHANGED <<used, clientVars>>

RepoFindAll ==
    /\ Idle
    /\ last' = Rec("find_all", 0, None, None, "", find_all(tasks), TRUE, 0, <<>>, tasks)
    /\ UNCHANGED <<tasks, used, clientVars>>

RepoFindById ==
    /\ Idle
    /\ \E task_id \in Ids :
        /\ last' = Rec("find_by_id", task_id, None, None, "", find_by_id(tasks, task_id),
                       TRUE, 0, <<>>, tasks)
        /\ UNCHANGED <<tasks, used, clientVars>>

RepoUpdate ==
    /\ Idle
    /\ \E task \in RepoTasks :
        \E r \in {update(tasks, task)} :
            /\ tasks' = r.store
            /\ last' = Rec("update", task.id, Some(task.title), Some(StatusValue(task.status)),
                           "", r.ret, r.ret # None, 0, <<>>, tasks)
            /\ UNCHANGED <<used, clientVars>>

RepoDelete ==
    /\ Idle
    /\ \E task_id \in Ids :
        \E r \in {delete(tasks, task_id)} :
            /\ tasks' = r.store
            /\ last' = Rec("delete", task_id, None, None, "", <<>>, r.ok, 0, <<>>, tasks)
            /\ UNCHANGED <<used, clientVars>>

RepoNext ==
    \/ Forget
    \/ RepoSave
    \/ RepoFindAll
    \/ RepoFindById
    \/ RepoUpdate
    \/ RepoDelete

RepoSpec == Init /\ [][RepoNext]_vars

\* The service, and a caller that also updates through the repository
UpdNext ==
    \/ Next
    \/ RepoUpdate

UpdSpec == Init /\ [][UpdNext]_vars

----------------------------------------------------------------------------
(* HTTP requests *)

HttpGetTasks ==
    /\ Idle
    /\ \E status \in Opt(StatusInputs) :
        \E r \in {get_tasks(tasks, status)} :
            /\ last' = Rec("GET /tasks", 0, None, status, r.exc, r.ret, r.ok, r.code,
                           r.body, tasks)
            /\ UNCHANGED <<tasks, used, clientVars>>

HttpCreateTask ==
    /\ Idle
    /\ \E title \in Opt(Titles), status \in Opt(StatusInputs), uuid \in Fresh :
        \E r \in {http_create_task(tasks, title, status, uuid)} :
            /\ tasks' = r.store
            /\ used' = IF r.code = HTTP_201_CREATED THEN used \cup {uuid} ELSE used
            /\ last' = Rec("POST /tasks", 0, title, status, r.exc, r.ret, r.ok, r.code,
                           r.body, tasks)
            /\ UNCHANGED clientVars

HttpGetTask ==
    /\ Idle
    /\ \E task_id \in Ids :
        \E r \in {get_task(tasks, task_id)} :
            /\ last' = Rec("GET /tasks/id", task_id, None, None, r.exc, r.ret, r.ok, r.code,
                           r.body, tasks)
            /\ UNCHANGED <<tasks, used, clientVars>>

HttpUpdateTask ==
    /\ Idle
    /\ \E task_id \in Ids, title \in Opt(Titles), status \in Opt(StatusInputs) :
        \E r \in {http_update_task(tasks, task_id, title, status)} :
            /\ tasks' = r.store
            /\ last' = Rec("PUT /tasks/id", task_id, title, status, r.exc, r.ret, r.ok,
                           r.code, r.body, tasks)
            /\ UNCHANGED <<used, clientVars>>

HttpDeleteTask ==
    /\ Idle
    /\ \E task_id \in Ids :
        \E r \in {http_delete_task(tasks, task_id)} :
            /\ tasks' = r.store
            /\ last' = Rec("DELETE /tasks/id", task_id, None, None, r.exc, r.ret, r.ok,
                           r.code, r.body, tasks)
            /\ UNCHANGED <<used, clientVars>>

HttpNext ==
    \/ Forget
    \/ HttpGetTasks
    \/ HttpCreateTask
    \/ HttpGetTask
    \/ HttpUpdateTask
    \/ HttpDeleteTask

HttpSpec == Init /\ [][HttpNext]_vars

\* Callers of the service and HTTP clients on the same repository
AppNext ==
    \/ Next
    \/ HttpNext

AppSpec == Init /\ [][AppNext]_vars

----------------------------------------------------------------------------
(* One client's lifecycle of a task, after any requests of other clients:   *)
(* POST /tasks, GET, PUT with only a status, DELETE, GET.  sid is the id    *)
(* the POST answered with, resp the answers so far.                         *)

Answer(r) == [code |-> r.code, body |-> r.body]

ScenSetup ==
    /\ pc = "setup"
    /\ HttpNext

ScenPost ==
    /\ pc = "setup"
    /\ Idle
    /\ \E title \in Titles, status \in StatusInputs, uuid \in Fresh :
        /\ strip(title) # <<>>
        /\ lower(status) \in StatusNames
        /\ \E r \in {http_create_task(tasks, Some(title), Some(status), uuid)} :
               /\ tasks' = r.store
               /\ used' = IF r.code = HTTP_201_CREATED THEN used \cup {uuid} ELSE used
               /\ sid' = IF Len(r.body) = 1 THEN r.body[1].id ELSE 0
               /\ resp' = <<Answer(r)>>
               /\ pc' = "created"
               /\ UNCHANGED <<last, race>>

ScenGet ==
    /\ pc = "created"
    /\ resp' = Append(resp, Answer(get_task(tasks, sid)))
    /\ pc' = "fetched"
    /\ UNCHANGED <<tasks, used, last, sid, race>>

ScenPut ==
    /\ pc = "fetched"
    /\ \E status \in {S_done, S_DONE} :
        \E r \in {http_update_task(tasks, sid, None, Some(status))} :
            /\ tasks' = r.store
            /\ resp' = Append(resp, Answer(r))
            /\ pc' = "updated"
            /\ UNCHANGED <<used, last, sid, race>>

ScenDelete ==
    /\ pc = "updated"
    /\ \E r \in {http_delete_task(tasks, sid)} :
           /\ tasks' = r.store
           /\ resp' = Append(resp, Answer(r))
           /\ pc' = "deleted"
           /\ UNCHANGED <<used, last, sid, race>>

ScenGetGone ==
    /\ pc = "deleted"
    /\ resp' = Append(resp, Answer(get_task(tasks, sid)))
    /\ pc' = "done"
    /\ UNCHANGED <<tasks, used, last, sid, race>>

ScenNext ==
    \/ ScenSetup
    \/ ScenPost
    \/ ScenGet
    \/ ScenPut
    \/ ScenDelete
    \/ ScenGetGone

ScenSpec == Init /\ [][ScenNext]_vars

----------------------------------------------------------------------------
(* update_task(id, ...) and delete_task(id) in two threads, interleaved at   *)
(* the repository calls: find_by_id, then update; delete.  What update_task  *)
(* computes between its two repository calls reads no shared state.         *)

RaceSetup ==
    /\ race = NoRace
    /\ \/ CreateTask
       \/ Forget

\* update_task up to its repository update
UpdateTaskFind ==
    /\ Idle
    /\ race.upc = "idle"
    /\ \E task_id \in Ids, title \in Opt(Titles), status \in Opt(StatusInputs) :
        /\ race.id \in {0, task_id}
        /\ \E existing_task \in {find_by_id(tasks, task_id)} :
            IF existing_task = None
            THEN race' = [race EXCEPT !.id = task_id, !.upc = "done", !.uret = None]
            ELSE LET new_title == IF title # None THEN title[1] ELSE existing_task[1].title
                     new_status == IF status # None THEN status[1]
                                   ELSE StatusValue(existing_task[1].status)
                 IN  race' = [race EXCEPT !.id = task_id, !.upc = "found",
                                  !.pending = TaskFactory_create(new_title, new_status,
                                                                 Some(task_id), task_id)]
    /\ UNCHANGED <<tasks, used, last, scenVars>>

\* the rest of update_task: the factory's ValueError, or repository.update
UpdateTaskWrite ==
    /\ race.upc = "found"
    /\ IF race.pending.exc # ""
       THEN /\ race' = [race EXCEPT !.upc = "done", !.uexc = race.pending.exc]
            /\ UNCHANGED tasks
       ELSE \E r \in {update(tasks, race.pending.val[1])} :
            /\ tasks' = r.store
            /\ race' = [race EXCEPT !.upc = "done", !.uret = r.ret]
    /\ UNCHANGED <<used, last, scenVars>>

DeleteTaskRace ==
    /\ Idle
    /\ race.dpc = "idle"
    /\ \E task_id \in Ids :
        /\ race.id \in {0, task_id}
        /\ \E r \in {delete_task(tasks, task_id)} :
            /\ tasks' = r.store
            /\ race' = [race EXCEPT !.id = task_id, !.dpc = "done", !.dok = r.ok,
                             !.dat = race.upc]
    /\ UNCHANGED <<used, last, scenVars>>

RaceNext ==
    \/ RaceSetup
    \/ UpdateTaskFind
    \/ UpdateTaskWrite
    \/ DeleteTaskRace

RaceSpec == Init /\ [][RaceNext]_vars

----------------------------------------------------------------------------
(* The vocabulary of the properties, stated without the code's operators *)

\* empty after trimming surrounding whitespace
BlankTitle(t) == \A i \in 1..Len(t) : t[i] = " "

\* the input with its surrounding whitespace removed
Trimmed(t) ==
    LET ink == {i \in 1..Len(t) : t[i] # " "}
    IN  IF ink = {} THEN <<>>
        ELSE SubSeq(t, CHOOSE i \in ink : \A j \in ink : i <= j,
                       CHOOSE i \in ink : \A j \in ink : j <= i)

UpperOf(c) ==
    CASE c = "p" -> "P" [] c = "e" -> "E" [] c = "n" -> "N" [] c = "d" -> "D"
      [] c = "i" -> "I" [] c = "g" -> "G" [] c = "o" -> "O" [] OTHER -> c

\* s equals the lowercase word w when case is ignored
SameIgnoringCase(s, w) ==
    /\ Len(s) = Len(w)
    /\ \A i \in 1..Len(w) : s[i] = w[i] \/ s[i] = UpperOf(w[i])

IsPending(s) == SameIgnoringCase(s, S_pending)

IsDone(s) == SameIgnoringCase(s, S_done)

LegalStatus(s) == IsPending(s) \/ IsDone(s)

Canonical(s) == IF IsPending(s) THEN S_pending ELSE S_done

Range(q) == {q[i] : i \in 1..Len(q)}

\* the entries of q other than the one stored under id, in order
Others(q, id) == SelectSeq(q, LAMBDA t : t.id # id)

----------------------------------------------------------------------------
(* Properties *)

\* C1: create_task with a title that is empty after trimming, or a status that
\* is not pending or done when case is ignored, raises ValueError, returns
\* nothing and leaves the repository as it was.
C1_InvalidCreateRejected ==
    (/\ last.op = "create_task"
     /\ BlankTitle(last.title[1]) \/ ~LegalStatus(last.status[1]))
    => /\ last.exc = "ValueError"
       /\ last.ret = None
       /\ tasks = last.pre

C1_Witness ==
    /\ last.op = "create_task"
    /\ last.title[1] = <<" ">>
    /\ last.status[1] = S_pending
    /\ last.exc = "ValueError"
    /\ Len(last.pre) = 1

\* C2: create_task with a title that is not blank and a status that is pending
\* or done when case is ignored succeeds; the returned task has the trimmed
\* title and the canonical lowercase status, and find_by_id of its id yields it.
C2_ValidCreateStored ==
    (/\ last.op = "create_task"
     /\ ~BlankTitle(last.title[1])
     /\ LegalStatus(last.status[1]))
    => /\ last.exc = ""
       /\ Len(last.ret) = 1
       /\ last.ret[1].title = Trimmed(last.title[1])
       /\ to_dict(last.ret[1]).status = Canonical(last.status[1])
       /\ find_by_id(tasks, last.ret[1].id) = last.ret

C2_Witness ==
    /\ last.op = "create_task"
    /\ last.title[1] = <<" ", "a">>
    /\ last.status[1] = S_DONE
    /\ last.exc = ""
    /\ Len(last.pre) = 1

\* C3: update_task on a stored id merges: with only a status the stored (and
\* returned) task keeps its title, with only a title it keeps its status; a
\* legal supplied value is taken over; the task keeps its id and its place,
\* and every other stored task is unchanged.
C3_UpdateMerges ==
    (/\ last.op = "update_task"
     /\ last.id \in Keys(last.pre)
     /\ (last.title = None) # (last.status = None))
    => LET k == IndexOf(last.pre, last.id)
           old == last.pre[k]
       IN  /\ Len(tasks) = Len(last.pre)
           /\ tasks[k].id = last.id
           /\ \A j \in 1..Len(tasks) : j # k => tasks[j] = last.pre[j]
           /\ last.ret # None => last.ret = <<tasks[k]>>
           /\ last.title = None =>
                /\ tasks[k].title = old.title
                /\ LegalStatus(last.status[1]) =>
                     /\ last.ret # None
                     /\ to_dict(tasks[k]).status = Canonical(last.status[1])
           /\ last.status = None =>
                /\ tasks[k].status = old.status
                /\ ~BlankTitle(last.title[1]) =>
                     /\ last.ret # None
                     /\ tasks[k].title = Trimmed(last.title[1])

C3_Witness ==
    /\ last.op = "update_task"
    /\ last.title # None
    /\ last.status = None
    /\ Len(last.pre) = 2
    /\ last.id = last.pre[1].id
    /\ last.pre[1].status = "DONE"
    /\ last.ret # None
    /\ tasks[1].title # last.pre[1].title

\* C4: updating an id that is not stored, through update_task or through the
\* repository's update, returns None, raises nothing and leaves the repository
\* as it was.
C4_UpdateAbsentNoEffect ==
    (/\ last.op \in {"update_task", "update"}
     /\ last.id \notin Keys(last.pre))
    => /\ last.ret = None
       /\ last.exc = ""
       /\ tasks = last.pre

C4_Witness ==
    /\ last.op = "update"
    /\ last.id \notin Keys(last.pre)
    /\ Len(last.pre) = 1
    /\ last.ret = None

\* C5: delete of an id that is not stored returns false and changes nothing;
\* delete of a stored id returns true and removes that entry and no other; a
\* delete of the same id right afterwards returns false and changes nothing.
C5_DeleteIdempotent ==
    last.op = "delete"
    => /\ last.id \notin Keys(last.pre) => (~last.ok /\ tasks = last.pre)
       /\ last.id \in Keys(last.pre) =>
            /\ last.ok
            /\ last.id \notin Keys(tasks)
            /\ tasks = Others(last.pre, last.id)
       /\ ~delete(tasks, last.id).ok
       /\ delete(tasks, last.id).store = tasks

C5_Witness ==
    /\ last.op = "delete"
    /\ last.ok
    /\ Len(last.pre) = 2
    /\ last.id = last.pre[1].id

\* C6: after save(task), find_by_id(task.id) returns a task equal to the saved
\* one in id, title and status, whether or not the id was stored before.
C6_SaveFindRoundTrip ==
    last.op = "save"
    => LET found == find_by_id(tasks, last.id)
       IN  /\ Len(found) = 1
           /\ found[1].id = last.id
           /\ found[1].title = last.title[1]
           /\ to_dict(found[1]).status = last.status[1]
           /\ last.ret = found

C6_Witness ==
    /\ last.op = "save"
    /\ last.id \in Keys(last.pre)
    /\ last.pre[IndexOf(last.pre, last.id)].title # last.title[1]
    /\ Len(last.pre) = 2

\* C7: get_tasks_by_status(s), for s pending or done when case is ignored,
\* returns exactly the stored tasks with that status, once each, in find_all's
\* order; the pending and the done results partition get_all_tasks().
C7_FilterExact ==
    /\ (last.op = "get_tasks_by_status" /\ LegalStatus(last.status[1]))
       => LET res == last.ret
              all == find_all(tasks)
              want == {i \in 1..Len(all) : to_dict(all[i]).status = Canonical(last.status[1])}
          IN  /\ Range(res) = {all[i] : i \in want}
              /\ Len(res) = Cardinality(want)
              /\ \A i, j \in 1..Len(res) :
                    i < j => IndexOf(all, res[i].id) < IndexOf(all, res[j].id)
    /\ LET p == Range(get_tasks_by_status(tasks, S_pending))
           d == Range(get_tasks_by_status(tasks, S_DONE))
       IN  /\ p \cup d = Range(get_all_tasks(tasks))
           /\ p \cap d = {}

C7_Witness ==
    /\ last.op = "get_tasks_by_status"
    /\ last.status[1] = S_DONE
    /\ Len(tasks) = 2
    /\ Len(last.ret) = 1
    /\ last.ret[1] = tasks[2]

\* C8: the lifecycle over HTTP: the POST of a valid body answers 201 with a
\* task of id X; GET /tasks/X answers 200 with that task; PUT /tasks/X with
\* only status done answers 200 with the same id and title and status done;
\* DELETE /tasks/X answers 204; GET /tasks/X then answers 404.
C8_HttpLifecycle ==
    /\ Len(resp) >= 1 =>
         /\ resp[1].code = 201
         /\ Len(resp[1].body) = 1
         /\ resp[1].body[1].id = sid
         /\ sid \in Ids
    /\ Len(resp) >= 2 =>
         /\ resp[2].code = 200
         /\ resp[2].body = resp[1].body
    /\ Len(resp) >= 3 =>
         /\ resp[3].code = 200
         /\ resp[3].body = <<[id |-> sid, title |-> resp[1].body[1].title, status |-> S_done]>>
    /\ Len(resp) >= 4 =>
         /\ resp[4].code = 204
         /\ resp[4].body = <<>>
    /\ Len(resp) >= 5 => resp[5].code = 404
    /\ pc = "done" => Len(resp) = 5

C8_Witness ==
    /\ pc = "done"
    /\ Len(resp) = 5
    /\ resp[1].body[1].status = S_pending
    /\ resp[5].code = 404
    /\ Len(tasks) = 1

\* C9: GET /tasks with a status parameter that is not pending or done when
\* case is ignored is answered with 400.
C9_InvalidFilterIs400 ==
    (/\ last.op = "GET /tasks"
     /\ last.status # None
     /\ ~LegalStatus(last.status[1]))
    => last.code = 400

\* C10: POST /tasks with a title that is empty or all whitespace, or a status
\* that is not pending or done, is answered with 400 and stores no task.
C10_InvalidPostIs400 ==
    (/\ last.op = "POST /tasks"
     /\ last.title # None
     /\ last.status # None
     /\ BlankTitle(last.title[1]) \/ ~LegalStatus(last.status[1]))
    => /\ last.code = 400
       /\ tasks = last.pre


\* C11: after any sequence of create_task, update_task and delete_task calls,
\* with valid or invalid arguments, every stored task has a title that is not
\* empty and not all whitespace and a status that is pending or done, and is
\* stored under its own id: no id is stored twice, and looking an id up
\* yields a task that carries that id.
C11_StoredTasksValid ==
    /\ \A i \in 1..Len(tasks) :
         /\ Len(tasks[i].title) > 0
         /\ ~BlankTitle(tasks[i].title)
         /\ to_dict(tasks[i]).status \in {S_pending, S_done}
         /\ \A j \in 1..Len(tasks) : tasks[j].id = tasks[i].id => j = i
    /\ \A id \in Ids :
         \/ get_task_by_id(tasks, id) = None
         \/ get_task_by_id(tasks, id)[1].id = id

C11_Witness ==
    /\ last.op = "update_task"
    /\ last.id \in Keys(last.pre)
    /\ last.title # None
    /\ BlankTitle(last.title[1])
    /\ Len(tasks) = 2


\* a PUT body that passes the request model: each field absent or legal
WellFormedUpdate(title, status) ==
    /\ title = None \/ ~BlankTitle(title[1])
    /\ status = None \/ LegalStatus(status[1])

\* C12: an id that is not stored is no exception below the adapter and a 404
\* at the adapter: get_task_by_id and update_task return None and delete_task
\* returns False, raising nothing; GET, PUT (with a well-formed body) and
\* DELETE of /tasks/{id} answer 404; none of them changes the repository.
C12_AbsentIsNoneThen404 ==
    last.id \notin Keys(last.pre) =>
      /\ last.op \in {"get_task_by_id", "update_task"} =>
           (last.ret = None /\ last.exc = "" /\ tasks = last.pre)
      /\ last.op = "delete_task" =>
           (~last.ok /\ last.exc = "" /\ tasks = last.pre)
      /\ last.op \in {"GET /tasks/id", "DELETE /tasks/id"} =>
           (last.code = 404 /\ tasks = last.pre)
      /\ (last.op = "PUT /tasks/id" /\ WellFormedUpdate(last.title, last.status)) =>
           (last.code = 404 /\ tasks = last.pre)

C12_Witness ==
    /\ last.op = "PUT /tasks/id"
    /\ last.id \notin Keys(last.pre)
    /\ last.title # None
    /\ last.status # None
    /\ last.code = 404
    /\ Len(last.pre) = 1


\* C13: update_task on a stored id with a supplied title that is empty after
\* trimming, or a supplied status that is not pending or done when case is
\* ignored, raises ValueError and leaves every stored task as it was.
C13_InvalidUpdateRejected ==
    (/\ last.op = "update_task"
     /\ last.id \in Keys(last.pre)
     /\ \/ last.title # None /\ BlankTitle(last.title[1])
        \/ last.status # None /\ ~LegalStatus(last.status[1]))
    => /\ last.exc = "ValueError"
       /\ last.ret = None
       /\ tasks = last.pre

C13_Witness ==
    /\ last.op = "update_task"
    /\ last.id \in Keys(last.pre)
    /\ last.title = Some(<<" ", " ">>)
    /\ last.status = Some(S_DONE)
    /\ last.pre[IndexOf(last.pre, last.id)].status = "PENDING"
    /\ last.exc = "ValueError"
    /\ Len(last.pre) = 2


\* the ids of a list of tasks, in its order
IdSeq(q) == [i \in 1..Len(q) |-> q[i].id]

\* C14: find_all returns every stored task exactly once, in the order in which
\* the ids still present were first inserted: save or update of a stored id
\* keeps every position, save of an id that is not stored (never stored, or
\* deleted before) puts it last, delete takes one id out of the order.
C14_FindAllInsertionOrder ==
    LET now == IdSeq(find_all(tasks))
        before == IdSeq(find_all(last.pre))
    IN  /\ \A i, j \in 1..Len(now) : now[i] = now[j] => i = j
        /\ \A id \in Ids :
             find_by_id(tasks, id) # None =>
               \E i \in 1..Len(now) : find_all(tasks)[i] = find_by_id(tasks, id)[1]
        /\ last.op = "find_all" => last.ret = tasks
        /\ (last.op = "save" /\ last.id \in Keys(last.pre)) => now = before
        /\ (last.op = "save" /\ last.id \notin Keys(last.pre)) => now = Append(before, last.id)
        /\ last.op = "update" => now = before
        /\ last.op = "delete" => now = SelectSeq(before, LAMBDA id : id # last.id)
        /\ last.op \in {"find_all", "find_by_id"} => now = before

C14_Witness ==
    /\ last.op = "save"
    /\ last.id \in Keys(last.pre)
    /\ Len(tasks) = 2
    /\ tasks[1].id = last.id
    /\ tasks[1].id > tasks[2].id
    /\ tasks[1] # last.pre[1]


\* C15: when delete_task(id) takes effect before the repository update of a
\* concurrent update_task(id, ...), the id is absent from then on and that
\* update returns None: the deleted task is not created again.
C15_DeletedStaysDeleted ==
    (race.dpc = "done" /\ race.dok /\ race.dat # "done")
    => /\ race.id \notin Keys(tasks)
       /\ race.upc = "done" => race.uret = None

C15_Witness ==
    /\ race.upc = "done"
    /\ race.dok
    /\ race.dat = "found"
    /\ race.pending.exc = ""
    /\ race.uret = None
    /\ Len(tasks) = 1

====
